---- MODULE Spec2Model ----
(***************************************************************************)
(* Order workflow, order sequencer and payment bridge of the Mama Dye      *)
(* Dreams backend (src/src/routes/orders.ts, src/src/routes/payment.ts,    *)
(* src/src/models/Order.ts, src/src/models/Product.ts, the Cart model and  *)
(* cart routes), as a state machine over the document store.  A request    *)
(* handler is a process that takes one step per database round trip, so    *)
(* that concurrent requests interleave at the awaits of the code.          *)
(***************************************************************************)
EXTENDS Integers, Sequences, FiniteSets, TLC

----------------------------------------------------------------------------
(* Bounds of the model *)

MaxProcs == 2
MaxRequests == 4
InitStock == 2
MaxQty == 2

(* Program constants *)

maxAttempts == 5
DefaultFreeShippingThreshold == 2000
DefaultTaxRate == 18
FlatShippingFee == 100
SequenceWidth == 4
MaxCartQuantity == 10
PriceV1 == 899
PriceV2 == 1499

Procs == 1..MaxProcs
Users == {"alice", "bob"}
Variants == {"v1", "v2"}

\* The user who shops; the other user of Users calls the order's endpoints
\* without owning the order.
Shopper == "alice"
\* A process.env setting: unset (Number(undefined) is NaN) or a number.
EnvUnset == [set |-> FALSE, value |-> 0]
EnvSet(n) == [set |-> TRUE, value |-> n]

\* Product.price of the product that owns the variant (seed data).
PriceOf(v) == IF v = "v1" THEN PriceV1 ELSE PriceV2

\* The MDD<YY><MM> bucket of new Date(): year 25, month 06.
BucketPrefix == <<2, 5, 0, 6>>

VARIABLES
    stock,      \* Product.inventory: variant -> stock
    carts,      \* Cart collection: user -> NoCart or [items, v]
    orders,     \* Order collection, in insertion order; the index is the _id
    req,        \* the request handlers in flight: proc -> local state
    clock,      \* requests started so far; also what new Date() reads
    env,        \* process.env: FREE_SHIPPING_THRESHOLD and TAX_RATE
    emails,     \* per order: confirmation emails dispatched (sendEmail calls)
    debits,     \* per order, per line: inventory debits applied by updateStock
    credits,    \* per order, per line: inventory credits applied by cancel
    response    \* the last response sent: the handler and the HTTP status

vars == <<stock, carts, orders, req, clock, env, emails, debits, credits, response>>

----------------------------------------------------------------------------
(* Strings of decimal digits: Number.prototype.toString, padStart, slice,   *)
(* parseInt and string comparison, as generateOrderNumber uses them.        *)

RECURSIVE NumToString(_)
NumToString(n) == IF n < 10 THEN <<n>> ELSE Append(NumToString(n \div 10), n % 10)

RECURSIVE PadStart(_, _)
PadStart(s, w) == IF Len(s) >= w THEN s ELSE PadStart(<<0>> \o s, w)

\* s.slice(-k)
SliceLast(s, k) == IF Len(s) <= k THEN s ELSE SubSeq(s, Len(s) - k + 1, Len(s))

RECURSIVE ParseInt(_)
ParseInt(s) == IF s = <<>> THEN 0
               ELSE 10 * ParseInt(SubSeq(s, 1, Len(s) - 1)) + s[Len(s)]

\* a < b in the string order the store sorts orderNumber by
RECURSIVE StrLess(_, _)
StrLess(a, b) ==
    IF b = <<>> THEN FALSE
    ELSE IF a = <<>> THEN TRUE
    ELSE IF a[1] # b[1] THEN a[1] < b[1]
    ELSE StrLess(Tail(a), Tail(b))

\* orderNumber matches /^MDD<YY><MM>/
InBucket(num) == Len(num) >= Len(BucketPrefix)
                 /\ SubSeq(num, 1, Len(BucketPrefix)) = BucketPrefix

----------------------------------------------------------------------------
(* Pure helpers of the handlers *)

\* Number(process.env.X) || dflt: an unset, non-numeric or zero setting
\* yields the default.
NumberOr(e, dflt) == IF ~e.set \/ e.value = 0 THEN dflt ELSE e.value

\* Math.round(x / 100) for x >= 0
RoundDiv100(x) == (x + 50) \div 100

RECURSIVE SumLines(_)
\* cartSchema.virtual('subtotal'): sum of price * quantity
SumLines(items) == IF items = <<>> THEN 0
                   ELSE items[1].price * items[1].quantity + SumLines(Tail(items))

\* The totals block with the shipping cost left out of the total.
ComputeTotals_NoShipping(subtotal, envThreshold, envRate) ==
    LET freeShippingThreshold == NumberOr(envThreshold, DefaultFreeShippingThreshold)
        shippingCost == IF subtotal >= freeShippingThreshold THEN 0 ELSE FlatShippingFee
        taxRate == NumberOr(envRate, DefaultTaxRate)
        taxAmount == RoundDiv100(subtotal * taxRate)
    IN [subtotal |-> subtotal, shippingCost |-> shippingCost, taxRate |-> taxRate,
        taxAmount |-> taxAmount, totalAmount |-> subtotal + taxAmount]

\* The totals block of POST /api/orders, from the cart subtotal and the
\* environment settings.
ComputeTotals(subtotal, envThreshold, envRate) ==
    LET freeShippingThreshold == NumberOr(envThreshold, DefaultFreeShippingThreshold)
        shippingCost == IF subtotal >= freeShippingThreshold THEN 0 ELSE FlatShippingFee
        taxRate == NumberOr(envRate, DefaultTaxRate)
        taxAmount == RoundDiv100(subtotal * taxRate)
    IN [subtotal |-> subtotal, shippingCost |-> shippingCost, taxRate |-> taxRate,
        taxAmount |-> taxAmount, totalAmount |-> subtotal + shippingCost + taxAmount]

\* `MDD${year}${month}${sequence.toString().padStart(4, '0')}`
OrderNumberOf(k) == BucketPrefix \o PadStart(NumToString(k), SequenceWidth)

\* A variant without an inventory record counted as available.
checkStock_RecordOptional(inv, v, quantity) ==
    IF v \in DOMAIN inv THEN inv[v] >= quantity ELSE TRUE

\* productSchema.methods.checkStock
checkStock(inv, v, quantity) == IF v \in DOMAIN inv THEN inv[v] >= quantity ELSE FALSE

\* The orders of the bucket, and the one that sorts last by orderNumber.
BucketOrders(os) == {k \in 1..Len(os) : InBucket(os[k].orderNumber)}

LastOrder(os) == CHOOSE k \in BucketOrders(os) :
                    \A j \in BucketOrders(os) :
                        j = k \/ StrLess(os[j].orderNumber, os[k].orderNumber)

\* generateOrderNumber with the sequence of an empty bucket starting at 0.
generateOrderNumber_FromZero(os) ==
    LET sequence == IF BucketOrders(os) = {} THEN 0
                    ELSE ParseInt(SliceLast(os[LastOrder(os)].orderNumber, SequenceWidth)) + 1
    IN BucketPrefix \o PadStart(NumToString(sequence), SequenceWidth)

\* generateOrderNumber(): last sequence of the bucket plus one, zero padded.
generateOrderNumber(os) ==
    LET sequence == IF BucketOrders(os) = {} THEN 1
                    ELSE ParseInt(SliceLast(os[LastOrder(os)].orderNumber, SequenceWidth)) + 1
    IN BucketPrefix \o PadStart(NumToString(sequence), SequenceWidth)

\* Order.findOne({ orderNumber })
OrderNumberExists(os, num) == \E k \in 1..Len(os) : os[k].orderNumber = num

\* An orderNumber field without the unique index: every insert is accepted.
UniqueIndexRejects_NoIndex(os, num) == FALSE

\* The unique index on orderNumber: an insert of a taken number fails (E11000).
UniqueIndexRejects(os, num) == OrderNumberExists(os, num)

----------------------------------------------------------------------------
(* Request handlers: local state *)

NoCart == [items |-> <<>>, v |-> -1]
NoTotals == [subtotal |-> 0, shippingCost |-> 0, taxRate |-> 0, taxAmount |-> 0,
             totalAmount |-> 0]

NoPayment == [method |-> "none", status |-> "none", razorpayOrderId |-> 0,
              razorpayPaymentId |-> "none", paidAt |-> 0]
NoDoc == [orderStatus |-> "none", paymentStatus |-> "none", payment |-> NoPayment]

Idle == [pc |-> "idle", op |-> "none", user |-> "none", cart |-> NoCart,
         totals |-> NoTotals, num |-> <<>>, attempts |-> 0,
         oid |-> 0, doc |-> NoDoc, arg |-> "none", now |-> 0, i |-> 0, snap |-> 0]

\* res.status(...).json(...): the handler ends and frees its slot; response
\* keeps the last answer sent.
Respond(p, op, status) ==
    /\ req' = [req EXCEPT ![p] = Idle]
    /\ response' = [op |-> op, status |-> status]

\* A handler starts on the first free slot (which slot serves a request has
\* no effect on it); the request budget bounds the run.
CanStart(p) ==
    /\ req[p].pc = "idle"
    /\ \A q \in Procs : q < p => req[q].pc # "idle"
    /\ clock < MaxRequests

DbUnchanged == UNCHANGED <<stock, carts, orders, emails, debits, credits>>

----------------------------------------------------------------------------
(* Cart: POST /api/cart/add *)

\* cartSchema.methods.addItem and its save(): a line of the same
\* (product, color, size) takes the added quantity, another triple is pushed
\* (a push increments the document version).
addItem(cart, v, quantity, price) ==
    LET idx == {k \in 1..Len(cart.items) : cart.items[k].variant = v}
    IN IF idx # {}
       THEN LET k == CHOOSE k \in idx : \A j \in idx : k <= j
            IN [cart EXCEPT !.items[k].quantity = @ + quantity]
       ELSE [items |-> Append(cart.items,
                              [variant |-> v, quantity |-> quantity, price |-> price]),
             v |-> cart.v + 1]

AddToCart(p, u, v, quantity) ==
    /\ CanStart(p)
    /\ clock' = clock + 1
    /\ IF quantity < 1 \/ quantity > MaxCartQuantity
       THEN Respond(p, "add_to_cart", 400) /\ UNCHANGED carts
       ELSE IF ~checkStock(stock, v, quantity)
       THEN Respond(p, "add_to_cart", 400) /\ UNCHANGED carts
       ELSE LET cart == IF carts[u] = NoCart THEN [items |-> <<>>, v |-> 0]
                        ELSE carts[u]
            IN /\ carts' = [carts EXCEPT ![u] = addItem(cart, v, quantity, PriceOf(v))]
               /\ Respond(p, "add_to_cart", 200)
    /\ UNCHANGED <<stock, orders, env, emails, debits, credits>>

----------------------------------------------------------------------------
(* Cart routes, one step per round trip: POST /add, PUT /update,            *)
(* DELETE /remove, DELETE /clear.  A handler loads the cart, changes its    *)
(* copy and saves it; save() sends the change of the copy: a push is sent   *)
(* as $push and increments the version without testing it, a change of the  *)
(* quantity of a line is sent as $set of items.k.quantity under the version *)
(* loaded, an assignment of items is sent as $set of the array under the    *)
(* version loaded and increments it.                                        *)

IndexOf(items, v) ==
    LET idx == {k \in 1..Len(items) : items[k].variant = v}
    IN IF idx = {} THEN 0 ELSE CHOOSE k \in idx : \A j \in idx : k <= j

\* items.filter(item => !(same product, color, size))
FilterOut(items, v) == SelectSeq(items, LAMBDA line : line.variant # v)

\* The save of a cart copy `new` loaded as `loaded`, on the stored cart `db`:
\* [ok, cart]; ok is FALSE when the save fails on the version.
SaveCart(db, loaded, new) ==
    IF new.items = loaded.items
    THEN [ok |-> TRUE, cart |-> db]
    ELSE IF Len(new.items) = Len(loaded.items) + 1
    THEN [ok |-> TRUE,
          cart |-> [items |-> Append(db.items, new.items[Len(new.items)]),
                    v |-> db.v + 1]]
    ELSE IF db.v # loaded.v
    THEN [ok |-> FALSE, cart |-> db]
    ELSE IF Len(new.items) = Len(loaded.items)
    THEN [ok |-> TRUE,
          cart |-> [db EXCEPT !.items =
                       [k \in 1..Len(db.items) |->
                           IF new.items[k].quantity # loaded.items[k].quantity
                           THEN [db.items[k] EXCEPT !.quantity = new.items[k].quantity]
                           ELSE db.items[k]]]]
    ELSE [ok |-> TRUE, cart |-> [items |-> new.items, v |-> db.v + 1]]

\* cartSchema.methods.updateItemQuantity for a quantity above 0.
updateItemQuantity(cart, v, quantity) ==
    LET k == IndexOf(cart.items, v)
    IN IF k = 0 THEN cart ELSE [cart EXCEPT !.items[k].quantity = quantity]

removeItem(cart, v) == [cart EXCEPT !.items = FilterOut(cart.items, v)]

clearCart(cart) == [cart EXCEPT !.items = <<>>]

\* POST /add up to Cart.findOne; snap is the stock checkStock compared the
\* quantity with.
CartAddLoad(p, u, v, quantity) ==
    /\ CanStart(p)
    /\ clock' = clock + 1
    /\ IF quantity < 1 \/ quantity > MaxCartQuantity
       THEN Respond(p, "cart_add", 400)
       ELSE IF ~checkStock(stock, v, quantity)
       THEN Respond(p, "cart_add", 400)
       ELSE req' = [req EXCEPT ![p] =
                       [Idle EXCEPT !.pc = IF carts[u] = NoCart THEN "cart_create"
                                           ELSE "cart_save",
                                    !.op = "cart_add", !.user = u, !.cart = carts[u],
                                    !.arg = v, !.i = quantity,
                                    !.snap = IF v \in DOMAIN stock THEN stock[v] ELSE 0]]
            /\ UNCHANGED response
    /\ DbUnchanged /\ UNCHANGED env

\* Cart.create({ user, items: [] }): the unique index on user refuses a
\* second cart of the user.
CartCreate(p) ==
    /\ req[p].pc = "cart_create"
    /\ LET u == req[p].user
       IN IF carts[u] # NoCart
          THEN Respond(p, req[p].op, 500) /\ UNCHANGED carts
          ELSE /\ carts' = [carts EXCEPT ![u] = [items |-> <<>>, v |-> 0]]
               /\ req' = [req EXCEPT ![p].cart = [items |-> <<>>, v |-> 0],
                                     ![p].pc = "cart_save"] /\ UNCHANGED response
    /\ UNCHANGED <<stock, orders, clock, env, emails, debits, credits>>

\* PUT /update up to the stock check; quantity 0 removes the line.
CartUpdateLoad(p, u, v, quantity) ==
    /\ CanStart(p)
    /\ clock' = clock + 1
    /\ IF quantity < 0 \/ quantity > MaxCartQuantity
       THEN Respond(p, "cart_update", 400)
       ELSE IF carts[u] = NoCart
       THEN Respond(p, "cart_update", 404)
       ELSE IF quantity > 0 /\ ~checkStock(stock, v, quantity)
       THEN Respond(p, "cart_update", 400)
       ELSE req' = [req EXCEPT ![p] =
                       [Idle EXCEPT !.pc = "cart_save",
                                    !.op = IF quantity = 0 THEN "cart_remove"
                                           ELSE "cart_update",
                                    !.user = u, !.cart = carts[u],
                                    !.arg = v, !.i = quantity,
                                    !.snap = IF quantity > 0 /\ v \in DOMAIN stock
                                            THEN stock[v] ELSE 0]]
            /\ UNCHANGED response
    /\ DbUnchanged /\ UNCHANGED env

\* DELETE /remove and DELETE /clear up to Cart.findOne.
CartRemoveLoad(p, u, v) ==
    /\ CanStart(p)
    /\ clock' = clock + 1
    /\ IF carts[u] = NoCart
       THEN Respond(p, "cart_remove", 404)
       ELSE req' = [req EXCEPT ![p] =
                       [Idle EXCEPT !.pc = "cart_save", !.op = "cart_remove",
                                    !.user = u, !.cart = carts[u], !.arg = v]] /\ UNCHANGED response
    /\ DbUnchanged /\ UNCHANGED env

CartClearLoad(p, u) ==
    /\ CanStart(p)
    /\ clock' = clock + 1
    /\ IF carts[u] = NoCart
       THEN Respond(p, "cart_clear", 404)
       ELSE req' = [req EXCEPT ![p] =
                       [Idle EXCEPT !.pc = "cart_save", !.op = "cart_clear",
                                    !.user = u, !.cart = carts[u]]] /\ UNCHANGED response
    /\ DbUnchanged /\ UNCHANGED env

\* The model method of the route and its save(); a failed save is answered
\* 500 by the catch block.
CartSave(p) ==
    /\ req[p].pc = "cart_save"
    /\ LET u == req[p].user
           loaded == req[p].cart
           new == CASE req[p].op = "cart_add" ->
                         [addItem(loaded, req[p].arg, req[p].i, PriceOf(req[p].arg))
                            EXCEPT !.v = loaded.v]
                    [] req[p].op = "cart_update" ->
                         updateItemQuantity(loaded, req[p].arg, req[p].i)
                    [] req[p].op = "cart_remove" -> removeItem(loaded, req[p].arg)
                    [] OTHER -> clearCart(loaded)
           saved == SaveCart(carts[u], loaded, new)
       IN IF saved.ok
          THEN carts' = [carts EXCEPT ![u] = saved.cart] /\ Respond(p, req[p].op, 200)
          ELSE UNCHANGED carts /\ Respond(p, req[p].op, 500)
    /\ UNCHANGED <<stock, orders, clock, env, emails, debits, credits>>

----------------------------------------------------------------------------
(* Admin catalogue: PUT /api/admin/products/:id with an inventory array *)

\* product.inventory = inventory; product.save(): the records of the
\* product are replaced by those of the request.
AdminReplaceInventory(p, inventory) ==
    /\ CanStart(p)
    /\ clock' = clock + 1
    /\ stock' = inventory
    /\ Respond(p, "admin_product", 200)
    /\ UNCHANGED <<carts, orders, env, emails, debits, credits>>

----------------------------------------------------------------------------
(* Checkout: POST /api/orders *)

\* The document Order.create persists.
NewOrder(num, u, items, totals) ==
    [orderNumber |-> num, user |-> u, items |-> items,
     subtotal |-> totals.subtotal, shippingCost |-> totals.shippingCost,
     tax |-> totals.taxRate, taxAmount |-> totals.taxAmount, discount |-> 0,
     total |-> totals.totalAmount, totalAmount |-> totals.totalAmount,
     payment |-> [method |-> "cod", status |-> "pending", razorpayOrderId |-> 0,
                  razorpayPaymentId |-> "none", paidAt |-> 0],
     orderStatus |-> "pending", paymentStatus |-> "pending"]

\* Cart.findOne, the empty-cart check, the stock check of every line and the
\* totals.
CheckoutLoadCart(p, u) ==
    /\ CanStart(p)
    /\ clock' = clock + 1
    /\ LET cart == carts[u]
       IN IF cart = NoCart \/ Len(cart.items) = 0
          THEN Respond(p, "checkout", 400)
          ELSE IF \E k \in 1..Len(cart.items) :
                     ~checkStock(stock, cart.items[k].variant, cart.items[k].quantity)
          THEN Respond(p, "checkout", 400)
          ELSE req' = [req EXCEPT ![p] =
                          [Idle EXCEPT !.pc = "generate", !.op = "checkout", !.user = u,
                                       !.cart = cart,
                                       !.totals = ComputeTotals(SumLines(cart.items),
                                                     env.FREE_SHIPPING_THRESHOLD,
                                                     env.TAX_RATE)]] /\ UNCHANGED response
    /\ DbUnchanged /\ UNCHANGED env

\* orderNumber = await generateOrderNumber()
CheckoutGenerate(p) ==
    /\ req[p].pc = "generate"
    /\ req' = [req EXCEPT ![p].num = generateOrderNumber(orders), ![p].pc = "probe"] /\ UNCHANGED response
    /\ DbUnchanged /\ UNCHANGED <<clock, env>>

\* The pre-check with no ceiling on the attempts.
CheckoutProbe_NoCeiling(p) ==
    /\ req[p].pc = "probe"
    /\ IF ~OrderNumberExists(orders, req[p].num)
       THEN req' = [req EXCEPT ![p].pc = "create"] /\ UNCHANGED response
       ELSE req' = [req EXCEPT ![p].attempts = @ + 1, ![p].pc = "generate"] /\ UNCHANGED response
    /\ DbUnchanged /\ UNCHANGED <<clock, env>>

\* A query of the loop (generateOrderNumber or the pre-check) rejects: the
\* catch block of the loop counts the attempt, or gives up on the last one.
CheckoutQueryThrows(p) ==
    /\ req[p].pc \in {"generate", "probe"}
    /\ IF req[p].attempts >= maxAttempts - 1
       THEN Respond(p, req[p].op, 500)
       ELSE req' = [req EXCEPT ![p].attempts = @ + 1, ![p].pc = "generate"] /\ UNCHANGED response
    /\ DbUnchanged /\ UNCHANGED <<clock, env>>

\* The pre-check Order.findOne({ orderNumber }) and the attempt counter.
CheckoutProbe(p) ==
    /\ req[p].pc = "probe"
    /\ IF ~OrderNumberExists(orders, req[p].num)
       THEN req' = [req EXCEPT ![p].pc = "create"] /\ UNCHANGED response
       ELSE IF req[p].attempts + 1 >= maxAttempts
       THEN Respond(p, req[p].op, 500)
       ELSE req' = [req EXCEPT ![p].attempts = @ + 1, ![p].pc = "generate"] /\ UNCHANGED response
    /\ DbUnchanged /\ UNCHANGED <<clock, env>>

\* Order.create with the lines of the order taken from the stock at once.
CheckoutCreate_DebitsStock(p) ==
    /\ req[p].pc = "create"
    /\ IF UniqueIndexRejects(orders, req[p].num)
       THEN Respond(p, req[p].op, 409) /\ UNCHANGED <<stock, orders, emails, debits, credits>>
       ELSE /\ orders' = Append(orders, NewOrder(req[p].num, req[p].user,
                                                 req[p].cart.items, req[p].totals))
            /\ stock' = [v \in DOMAIN stock |->
                            stock[v] - SumLines(SelectSeq(req[p].cart.items,
                                          LAMBDA line : line.variant = v)) \div PriceOf(v)]
            /\ emails' = Append(emails, 0)
            /\ debits' = Append(debits, [k \in 1..Len(req[p].cart.items) |-> 0])
            /\ credits' = Append(credits, [k \in 1..Len(req[p].cart.items) |-> 0])
            /\ req' = [req EXCEPT ![p].pc = "clear", ![p].oid = Len(orders) + 1] /\ UNCHANGED response
    /\ UNCHANGED <<carts, clock, env>>

\* Order.create: a duplicate key error is answered 409 by the catch block.
CheckoutCreate(p) ==
    /\ req[p].pc = "create"
    /\ IF UniqueIndexRejects(orders, req[p].num)
       THEN Respond(p, req[p].op, 409) /\ UNCHANGED <<orders, emails, debits, credits>>
       ELSE /\ orders' = Append(orders, NewOrder(req[p].num, req[p].user,
                                                 req[p].cart.items, req[p].totals))
            /\ emails' = Append(emails, 0)
            /\ debits' = Append(debits, [k \in 1..Len(req[p].cart.items) |-> 0])
            /\ credits' = Append(credits, [k \in 1..Len(req[p].cart.items) |-> 0])
            /\ req' = [req EXCEPT ![p].pc = "clear", ![p].oid = Len(orders) + 1] /\ UNCHANGED response
    /\ UNCHANGED <<stock, carts, clock, env>>

\* cart.clearCart(): items = [] saved under the version the cart was loaded
\* with; a cart whose version moved on fails the save (VersionError, 500).
CheckoutClearCart(p) ==
    /\ req[p].pc = "clear"
    /\ LET u == req[p].user
       IN IF carts[u].v # req[p].cart.v
          THEN Respond(p, req[p].op, 500) /\ UNCHANGED carts
          ELSE /\ carts' = [carts EXCEPT ![u] = [items |-> <<>>, v |-> @.v + 1]]
               /\ Respond(p, req[p].op, 201)
    /\ UNCHANGED <<stock, orders, clock, env, emails, debits, credits>>

----------------------------------------------------------------------------
(* Documents loaded by a handler and saved later *)

\* What a handler keeps of Order.findById: the fields the handlers assign.
Loaded(o) == [orderStatus |-> orders[o].orderStatus,
              paymentStatus |-> orders[o].paymentStatus,
              payment |-> orders[o].payment]

\* order.save(): the update sets the paths whose value the handler changed
\* since the load, and leaves the other paths as the store has them.
SaveOrder(db, loaded, new) ==
    [db EXCEPT
       !.orderStatus = IF new.orderStatus # loaded.orderStatus
                       THEN new.orderStatus ELSE @,
       !.paymentStatus = IF new.paymentStatus # loaded.paymentStatus
                         THEN new.paymentStatus ELSE @,
       !.payment = [f \in DOMAIN @ |->
                       IF new.payment[f] # loaded.payment[f]
                       THEN new.payment[f] ELSE @[f]]]

\* order.save() after order.payment = {...}: the sub-document is set whole.
SaveOrderWithPayment(db, loaded, new) ==
    [SaveOrder(db, loaded, [new EXCEPT !.payment = loaded.payment])
       EXCEPT !.payment = new.payment]

\* crypto.createHmac('sha256', key).update(message).digest('hex')
Hmac(key, message) == <<key, message>>

KeySecret == "RAZORPAY_KEY_SECRET"
WebhookSecret == "RAZORPAY_WEBHOOK_SECRET"
PaymentIds == {"pay_1", "pay_2"}
GatewayOrderRef == "order_rzp"

\* The signatures a client can send with (razorpay_order_id, payment id):
\* the gateway's for either payment id, or one made without the secret.
ClientSignatures == {Hmac(KeySecret, <<GatewayOrderRef, pid>>) : pid \in PaymentIds}
                    \cup {Hmac("guess", <<GatewayOrderRef, pid>>) : pid \in PaymentIds}

\* razorpay_signature: '' in the request body.
EmptySignature == <<>>

OrderIds == 1..Len(orders)

----------------------------------------------------------------------------
(* Payment bridge: POST /api/payment/create-order *)

\* The load step of create-order without the test of a paid order.
CreateIntentLoad_NoPaidCheck(p, u, o) ==
    /\ CanStart(p)
    /\ clock' = clock + 1
    /\ IF orders[o].user # u
       THEN Respond(p, "create_intent", 403)
       ELSE req' = [req EXCEPT ![p] =
                       [Idle EXCEPT !.pc = "intent_save", !.op = "create_intent",
                                    !.user = u, !.oid = o, !.doc = Loaded(o),
                                    !.now = clock + 1]] /\ UNCHANGED response
    /\ DbUnchanged /\ UNCHANGED env

CreateIntentLoad(p, u, o) ==
    /\ CanStart(p)
    /\ clock' = clock + 1
    /\ IF orders[o].user # u
       THEN Respond(p, "create_intent", 403)
       ELSE IF orders[o].paymentStatus = "completed"
       THEN Respond(p, "create_intent", 400)
       ELSE req' = [req EXCEPT ![p] =
                       [Idle EXCEPT !.pc = "intent_save", !.op = "create_intent",
                                    !.user = u, !.oid = o, !.doc = Loaded(o),
                                    !.now = clock + 1]] /\ UNCHANGED response
    /\ DbUnchanged /\ UNCHANGED env

\* razorpay.orders.create, then the gateway reference and paymentStatus saved.
CreateIntentSave(p) ==
    /\ req[p].pc = "intent_save"
    /\ LET o == req[p].oid
           new == [req[p].doc EXCEPT !.payment.razorpayOrderId = req[p].now,
                                     !.paymentStatus = "pending"]
       IN orders' = [orders EXCEPT ![o] = SaveOrder(@, req[p].doc, new)]
    /\ Respond(p, req[p].op, 200)
    /\ UNCHANGED <<stock, carts, clock, env, emails, debits, credits>>

----------------------------------------------------------------------------
(* The stock loop shared by verify, cod (debit) and cancel (credit) *)

\* Product.findById(item.product): the handler reads the inventory.
StockFind(p) ==
    /\ req[p].pc = "find"
    /\ LET item == orders[req[p].oid].items[req[p].i]
       IN req' = [req EXCEPT ![p].snap = stock[item.variant], ![p].pc = "update"] /\ UNCHANGED response
    /\ DbUnchanged /\ UNCHANGED <<clock, env>>

\* After the last line: the confirmation email of verify and cod, and the
\* response.
EndOfLoop(p, i) ==
    IF i < Len(orders[req[p].oid].items)
    THEN /\ req' = [req EXCEPT ![p].i = i + 1, ![p].pc = "find"] /\ UNCHANGED response
         /\ UNCHANGED emails
    ELSE /\ Respond(p, req[p].op, 200)
         /\ emails' = IF req[p].op \in {"verify", "cod"}
                      THEN [emails EXCEPT ![req[p].oid] = @ + 1] ELSE emails

\* The debit saved without the validator of the schema.
updateStock_NoValidator(p) ==
    /\ req[p].pc = "update"
    /\ req[p].op \in {"verify", "cod"}
    /\ LET o == req[p].oid
           i == req[p].i
           item == orders[o].items[i]
       IN /\ stock' = [stock EXCEPT ![item.variant] = req[p].snap - item.quantity]
          /\ debits' = [debits EXCEPT ![o][i] = @ + 1]
          /\ EndOfLoop(p, i)
    /\ UNCHANGED <<carts, orders, clock, env, credits>>

\* productSchema.methods.updateStock: item.stock -= quantity on the document
\* as read, then save(); the schema's min: 0 fails the save of a negative
\* stock, which ends the handler in its catch block (500).
updateStock(p) ==
    /\ req[p].pc = "update"
    /\ req[p].op \in {"verify", "cod"}
    /\ LET o == req[p].oid
           i == req[p].i
           item == orders[o].items[i]
           newStock == req[p].snap - item.quantity
       IN IF newStock < 0
          THEN Respond(p, req[p].op, 500) /\ UNCHANGED <<stock, debits, emails>>
          ELSE /\ stock' = [stock EXCEPT ![item.variant] = newStock]
               /\ debits' = [debits EXCEPT ![o][i] = @ + 1]
               /\ EndOfLoop(p, i)
    /\ UNCHANGED <<carts, orders, clock, env, credits>>

\* POST /:id/cancel, restore loop: inventoryItem.stock += item.quantity on
\* the document as read, then save().
restoreStock(p) ==
    /\ req[p].pc = "update"
    /\ req[p].op = "cancel"
    /\ LET o == req[p].oid
           i == req[p].i
           item == orders[o].items[i]
       IN /\ stock' = [stock EXCEPT ![item.variant] = req[p].snap + item.quantity]
          /\ credits' = [credits EXCEPT ![o][i] = @ + 1]
          /\ EndOfLoop(p, i)
    /\ UNCHANGED <<carts, orders, clock, env, debits>>

----------------------------------------------------------------------------
(* Payment bridge: POST /api/payment/verify *)

\* The load step without the comparison of the signature.
VerifyLoad_NoSignatureCheck(p, u, o, pid, signature) ==
    /\ CanStart(p)
    /\ clock' = clock + 1
    /\ IF orders[o].user # u
       THEN Respond(p, "verify", 403)
       ELSE req' = [req EXCEPT ![p] =
                       [Idle EXCEPT !.pc = "verify_save", !.op = "verify", !.user = u,
                                    !.oid = o, !.doc = Loaded(o), !.arg = pid,
                                    !.now = clock + 1]] /\ UNCHANGED response
    /\ DbUnchanged /\ UNCHANGED env

\* The parameter check (an empty razorpay_signature is a missing one), the
\* owner check and the signature check, in the order of the handler.
VerifyLoad(p, u, o, pid, signature) ==
    /\ CanStart(p)
    /\ clock' = clock + 1
    /\ IF signature = EmptySignature
       THEN Respond(p, "verify", 400)
       ELSE IF orders[o].user # u
       THEN Respond(p, "verify", 403)
       ELSE IF Hmac(KeySecret, <<GatewayOrderRef, pid>>) # signature
       THEN Respond(p, "verify", 400)
       ELSE req' = [req EXCEPT ![p] =
                       [Idle EXCEPT !.pc = "verify_save", !.op = "verify", !.user = u,
                                    !.oid = o, !.doc = Loaded(o), !.arg = pid,
                                    !.now = clock + 1]] /\ UNCHANGED response
    /\ DbUnchanged /\ UNCHANGED env

\* The assignments of a successful payment (verify and handlePaymentCaptured).
MarkPaid(doc, pid, now) ==
    [doc EXCEPT !.payment.razorpayPaymentId = pid,
                !.payment.status = "completed",
                !.payment.paidAt = now,
                !.paymentStatus = "completed",
                !.orderStatus = "confirmed"]

VerifySave(p) ==
    /\ req[p].pc = "verify_save"
    /\ LET o == req[p].oid
       IN orders' = [orders EXCEPT ![o] =
                        SaveOrder(@, req[p].doc, MarkPaid(req[p].doc, req[p].arg, req[p].now))]
    /\ req' = [req EXCEPT ![p].pc = "find", ![p].i = 1] /\ UNCHANGED response
    /\ UNCHANGED <<stock, carts, clock, env, emails, debits, credits>>

----------------------------------------------------------------------------
(* Payment bridge: POST /api/payment/cod *)

\* The load step of cod without the comparison of the owner.
CodLoad_NoOwnerCheck(p, u, o) ==
    /\ CanStart(p)
    /\ clock' = clock + 1
    /\ IF orders[o].orderStatus # "pending"
       THEN Respond(p, "cod", 400)
       ELSE req' = [req EXCEPT ![p] =
                       [Idle EXCEPT !.pc = "cod_save", !.op = "cod", !.user = u,
                                    !.oid = o, !.doc = Loaded(o), !.now = clock + 1]] /\ UNCHANGED response
    /\ DbUnchanged /\ UNCHANGED env

CodLoad(p, u, o) ==
    /\ CanStart(p)
    /\ clock' = clock + 1
    /\ IF orders[o].user # u
       THEN Respond(p, "cod", 403)
       ELSE IF orders[o].orderStatus # "pending"
       THEN Respond(p, "cod", 400)
       ELSE req' = [req EXCEPT ![p] =
                       [Idle EXCEPT !.pc = "cod_save", !.op = "cod", !.user = u,
                                    !.oid = o, !.doc = Loaded(o), !.now = clock + 1]] /\ UNCHANGED response
    /\ DbUnchanged /\ UNCHANGED env

CodSave(p) ==
    /\ req[p].pc = "cod_save"
    /\ LET o == req[p].oid
           new == [orderStatus |-> "confirmed", paymentStatus |-> "pending",
                   payment |-> [NoPayment EXCEPT !.method = "cod", !.status = "pending"]]
       IN orders' = [orders EXCEPT ![o] = SaveOrderWithPayment(@, req[p].doc, new)]
    /\ req' = [req EXCEPT ![p].pc = "find", ![p].i = 1] /\ UNCHANGED response
    /\ UNCHANGED <<stock, carts, clock, env, emails, debits, credits>>

----------------------------------------------------------------------------
(* Payment bridge: POST /api/payment/webhook *)

\* The signature check of the webhook, then Order.findById of the handler of
\* the event ("payment.captured", "payment.failed").
WebhookPaymentLoad(p, event, o, pid, signature) ==
    /\ CanStart(p)
    /\ clock' = clock + 1
    /\ IF signature # Hmac(WebhookSecret, <<event, o, pid>>)
       THEN Respond(p, event, 400)
       ELSE req' = [req EXCEPT ![p] =
                       [Idle EXCEPT !.pc = "webhook_save", !.op = event, !.oid = o,
                                    !.doc = Loaded(o), !.arg = pid, !.now = clock + 1]] /\ UNCHANGED response
    /\ DbUnchanged /\ UNCHANGED env

\* handleRefundCreated: Order.findOne({ 'payment.razorpayPaymentId' }); no
\* order with that payment is answered ok.
WebhookRefundLoad(p, pid, signature) ==
    /\ CanStart(p)
    /\ clock' = clock + 1
    /\ LET found == {o \in OrderIds : orders[o].payment.razorpayPaymentId = pid}
       IN IF signature # Hmac(WebhookSecret, <<"refund.created", 0, pid>>)
          THEN Respond(p, "refund.created", 400)
          ELSE IF found = {}
          THEN Respond(p, "refund.created", 200)
          ELSE LET o == CHOOSE o \in found : \A k \in found : o <= k
               IN req' = [req EXCEPT ![p] =
                             [Idle EXCEPT !.pc = "webhook_save", !.op = "refund.created",
                                          !.oid = o, !.doc = Loaded(o), !.arg = pid,
                                          !.now = clock + 1]] /\ UNCHANGED response
    /\ DbUnchanged /\ UNCHANGED env

\* handlePaymentCaptured: payment and status fields assigned and saved.
handlePaymentCaptured(p) ==
    /\ req[p].pc = "webhook_save"
    /\ req[p].op = "payment.captured"
    /\ LET o == req[p].oid
       IN orders' = [orders EXCEPT ![o] =
                        SaveOrder(@, req[p].doc, MarkPaid(req[p].doc, req[p].arg, req[p].now))]
    /\ Respond(p, req[p].op, 200)
    /\ UNCHANGED <<stock, carts, clock, env, emails, debits, credits>>

handlePaymentFailed(p) ==
    /\ req[p].pc = "webhook_save"
    /\ req[p].op = "payment.failed"
    /\ LET o == req[p].oid
           new == [req[p].doc EXCEPT !.payment.status = "failed",
                                     !.paymentStatus = "failed"]
       IN orders' = [orders EXCEPT ![o] = SaveOrder(@, req[p].doc, new)]
    /\ Respond(p, req[p].op, 200)
    /\ UNCHANGED <<stock, carts, clock, env, emails, debits, credits>>

handleRefundCreated(p) ==
    /\ req[p].pc = "webhook_save"
    /\ req[p].op = "refund.created"
    /\ LET o == req[p].oid
           new == [req[p].doc EXCEPT !.payment.status = "refunded",
                                     !.paymentStatus = "refunded",
                                     !.orderStatus = "refunded"]
       IN orders' = [orders EXCEPT ![o] = SaveOrder(@, req[p].doc, new)]
    /\ Respond(p, req[p].op, 200)
    /\ UNCHANGED <<stock, carts, clock, env, emails, debits, credits>>

----------------------------------------------------------------------------
(* Order workflow: POST /api/orders/:id/cancel *)

CancelLoad(p, u, o) ==
    /\ CanStart(p)
    /\ clock' = clock + 1
    /\ IF orders[o].user # u
       THEN Respond(p, "cancel", 403)
       ELSE IF orders[o].orderStatus \in {"shipped", "out-for-delivery", "delivered"}
       THEN Respond(p, "cancel", 400)
       ELSE IF orders[o].orderStatus = "cancelled"
       THEN Respond(p, "cancel", 400)
       ELSE req' = [req EXCEPT ![p] =
                       [Idle EXCEPT !.pc = "cancel_save", !.op = "cancel", !.user = u,
                                    !.oid = o, !.doc = Loaded(o), !.now = clock + 1]] /\ UNCHANGED response
    /\ DbUnchanged /\ UNCHANGED env

CancelSave(p) ==
    /\ req[p].pc = "cancel_save"
    /\ LET o == req[p].oid
           new == [req[p].doc EXCEPT !.orderStatus = "cancelled"]
       IN orders' = [orders EXCEPT ![o] = SaveOrder(@, req[p].doc, new)]
    /\ req' = [req EXCEPT ![p].pc = "find", ![p].i = 1] /\ UNCHANGED response
    /\ UNCHANGED <<stock, carts, clock, env, emails, debits, credits>>

----------------------------------------------------------------------------
(* Order workflow: PUT /api/orders/:id/status (admin) *)

validStatuses == {"pending", "confirmed", "processing", "shipped", "out-for-delivery",
                  "delivered", "cancelled", "refunded", "return-requested"}

AdminStatusLoad(p, o, orderStatus) ==
    /\ CanStart(p)
    /\ clock' = clock + 1
    /\ IF orderStatus \notin validStatuses
       THEN Respond(p, "admin_status", 400)
       ELSE req' = [req EXCEPT ![p] =
                       [Idle EXCEPT !.pc = "admin_save", !.op = "admin_status", !.oid = o,
                                    !.doc = Loaded(o), !.arg = orderStatus,
                                    !.now = clock + 1]] /\ UNCHANGED response
    /\ DbUnchanged /\ UNCHANGED env

\* The status saved, and the confirmation email of the target "confirmed".
AdminStatusSave(p) ==
    /\ req[p].pc = "admin_save"
    /\ LET o == req[p].oid
           new == [req[p].doc EXCEPT !.orderStatus = req[p].arg]
       IN /\ orders' = [orders EXCEPT ![o] = SaveOrder(@, req[p].doc, new)]
          /\ emails' = IF req[p].arg = "confirmed"
                       THEN [emails EXCEPT ![o] = @ + 1] ELSE emails
    /\ Respond(p, req[p].op, 200)
    /\ UNCHANGED <<stock, carts, clock, env, debits, credits>>

----------------------------------------------------------------------------
(* Admin catalogue: PATCH /api/admin/products/:id/inventory *)

\* The stock the handler assigns to the record it found, from the stock it
\* read: operation add, remove or set with the stock field of the request.
AdjustedStock(currentStock, operation, n) ==
    CASE operation = "add" -> currentStock + n
      [] operation = "remove" -> IF currentStock - n > 0 THEN currentStock - n ELSE 0
      [] OTHER -> n

\* Product.findById and the assignment on the document as read; a variant
\* without a record gets a new one with the stock of the request.
AdminInventoryLoad(p, v, operation, n) ==
    /\ CanStart(p)
    /\ clock' = clock + 1
    /\ req' = [req EXCEPT ![p] =
                  [Idle EXCEPT !.pc = "inventory_save", !.op = "admin_inventory",
                               !.arg = v,
                               !.snap = IF v \in DOMAIN stock
                                        THEN AdjustedStock(stock[v], operation, n)
                                        ELSE n]]
    /\ UNCHANGED response
    /\ DbUnchanged /\ UNCHANGED env

\* product.save(): the schema's min: 0 fails the save of a negative stock
\* (500); otherwise the stock assigned is written.
AdminInventorySave(p) ==
    /\ req[p].pc = "inventory_save"
    /\ LET v == req[p].arg
       IN IF req[p].snap < 0
          THEN Respond(p, req[p].op, 500) /\ UNCHANGED stock
          ELSE /\ stock' = [w \in DOMAIN stock \cup {v} |->
                               IF w = v THEN req[p].snap ELSE stock[w]]
               /\ Respond(p, req[p].op, 200)
    /\ UNCHANGED <<carts, orders, clock, env, emails, debits, credits>>

----------------------------------------------------------------------------
(* Specification of the cart and checkout handlers alone *)

EnvSettings == {[FREE_SHIPPING_THRESHOLD |-> EnvUnset, TAX_RATE |-> EnvUnset],
                [FREE_SHIPPING_THRESHOLD |-> EnvSet(1000), TAX_RATE |-> EnvSet(5)]}

InitDb ==
    /\ stock = [v \in Variants |-> InitStock]
    /\ carts = [u \in Users |-> NoCart]
    /\ orders = <<>>
    /\ req = [p \in Procs |-> Idle]
    /\ clock = 0
    /\ emails = <<>>
    /\ debits = <<>>
    /\ credits = <<>>
    /\ response = [op |-> "none", status |-> 0]

InitCheckout ==
    /\ InitDb
    /\ env \in EnvSettings

NextCheckout ==
    \/ \E p \in Procs, u \in Users, v \in Variants, q \in 0..MaxQty : AddToCart(p, u, v, q)
    \/ \E p \in Procs, u \in Users : CheckoutLoadCart(p, u)
    \/ \E p \in Procs : CheckoutGenerate(p)
    \/ \E p \in Procs : CheckoutProbe(p)
    \/ \E p \in Procs : CheckoutCreate(p)
    \/ \E p \in Procs : CheckoutClearCart(p)

SpecCheckout == InitCheckout /\ [][NextCheckout]_vars

----------------------------------------------------------------------------
(* Specification of the cart routes, the catalogue and checkout, with the   *)
(* cart handlers stepping at their round trips.                             *)

\* The inventory arrays an admin sends: with or without the record of v2.
InventoryInputs == {[v \in S |-> n] : S \in {{"v1"}, Variants}, n \in {1, InitStock}}

InitCart ==
    /\ stock = [v \in Variants |-> InitStock]
    /\ carts = [u \in Users |-> NoCart]
    /\ orders = <<>>
    /\ req = [p \in Procs |-> Idle]
    /\ clock = 1
    /\ env = [FREE_SHIPPING_THRESHOLD |-> EnvUnset, TAX_RATE |-> EnvUnset]
    /\ emails = <<>>
    /\ debits = <<>>
    /\ credits = <<>>
    /\ response = [op |-> "none", status |-> 0]

NextCart ==
    \/ \E p \in Procs, v \in Variants, q \in 0..MaxQty : CartAddLoad(p, Shopper, v, q)
    \/ \E p \in Procs : CartCreate(p)
    \/ \E p \in Procs, v \in Variants, q \in 0..MaxQty : CartUpdateLoad(p, Shopper, v, q)
    \/ \E p \in Procs, v \in Variants : CartRemoveLoad(p, Shopper, v)
    \/ \E p \in Procs : CartClearLoad(p, Shopper)
    \/ \E p \in Procs : CartSave(p)
    \/ \E p \in Procs, inv \in InventoryInputs : AdminReplaceInventory(p, inv)
    \/ \E p \in Procs, u \in Users : CheckoutLoadCart(p, u)
    \/ \E p \in Procs : CheckoutGenerate(p)
    \/ \E p \in Procs : CheckoutProbe(p)
    \/ \E p \in Procs : CheckoutCreate(p)
    \/ \E p \in Procs : CheckoutClearCart(p)

SpecCart == InitCart /\ [][NextCart]_vars

----------------------------------------------------------------------------
(* Specification of the order sequencer: checkout on a bucket that already  *)
(* holds orders.  The store keeps the latest orders of the bucket; the      *)
(* earlier ones, of lower numbers, are neither the last order that          *)
(* generateOrderNumber reads nor a candidate that the pre-check looks up.   *)
(* Every user has put one unit of v1 in the cart.                           *)

LastSequence == 9999

\* The sequences of the latest orders of the bucket at the start.
BucketTails == {<<>>, <<LastSequence - 1>>, <<LastSequence - 1, LastSequence>>}

PriorOrder(n) ==
    LET items == <<[variant |-> "v1", quantity |-> 1, price |-> PriceOf("v1")]>>
    IN NewOrder(OrderNumberOf(n), Shopper, items,
                ComputeTotals(SumLines(items), EnvUnset, EnvUnset))

InitSequencer ==
    /\ stock = [v \in Variants |-> InitStock]
    /\ carts = [u \in Users |->
                 addItem([items |-> <<>>, v |-> 0], "v1", 1, PriceOf("v1"))]
    /\ \E tail \in BucketTails :
          /\ orders = [k \in 1..Len(tail) |-> PriorOrder(tail[k])]
          /\ emails = [k \in 1..Len(tail) |-> 0]
          /\ debits = [k \in 1..Len(tail) |-> <<0>>]
          /\ credits = [k \in 1..Len(tail) |-> <<0>>]
    /\ req = [p \in Procs |-> Idle]
    /\ clock = 2
    /\ env = [FREE_SHIPPING_THRESHOLD |-> EnvUnset, TAX_RATE |-> EnvUnset]
    /\ response = [op |-> "none", status |-> 0]

NextSequencer ==
    \/ \E p \in Procs, u \in Users, q \in 1..MaxQty : AddToCart(p, u, "v1", q)
    \/ \E p \in Procs, u \in Users : CheckoutLoadCart(p, u)
    \/ \E p \in Procs : CheckoutGenerate(p)
    \/ \E p \in Procs : CheckoutQueryThrows(p)
    \/ \E p \in Procs : CheckoutProbe(p)
    \/ \E p \in Procs : CheckoutCreate(p)
    \/ \E p \in Procs : CheckoutClearCart(p)

SpecSequencer == InitSequencer /\ [][NextSequencer]_vars

----------------------------------------------------------------------------
(* Specification of the whole order and payment workflow *)

Init ==
    /\ InitDb
    /\ env = [FREE_SHIPPING_THRESHOLD |-> EnvUnset, TAX_RATE |-> EnvUnset]

\* The stock field of an inventory request.
StockInputs == {-1, 1}

StatusInputs == validStatuses \cup {"payment_pending"}

WebhookSignatures(event, o, pid) ==
    {Hmac(WebhookSecret, <<event, o, pid>>), Hmac("guess", <<event, o, pid>>)}

Next ==
    \/ \E p \in Procs, v \in Variants, q \in 1..MaxQty : AddToCart(p, Shopper, v, q)
    \/ \E p \in Procs : CheckoutLoadCart(p, Shopper)
    \/ \E p \in Procs : CheckoutGenerate(p)
    \/ \E p \in Procs : CheckoutProbe(p)
    \/ \E p \in Procs : CheckoutCreate(p)
    \/ \E p \in Procs : CheckoutClearCart(p)
    \/ \E p \in Procs, u \in Users, o \in OrderIds : CreateIntentLoad(p, u, o)
    \/ \E p \in Procs : CreateIntentSave(p)
    \/ \E p \in Procs, u \in Users, o \in OrderIds, pid \in PaymentIds,
          sig \in ClientSignatures \cup {EmptySignature} : VerifyLoad(p, u, o, pid, sig)
    \/ \E p \in Procs : VerifySave(p)
    \/ \E p \in Procs, u \in Users, o \in OrderIds : CodLoad(p, u, o)
    \/ \E p \in Procs : CodSave(p)
    \/ \E p \in Procs : StockFind(p)
    \/ \E p \in Procs : updateStock(p)
    \/ \E p \in Procs : restoreStock(p)
    \/ \E p \in Procs, event \in {"payment.captured", "payment.failed"}, o \in OrderIds,
          pid \in PaymentIds : \E sig \in WebhookSignatures(event, o, pid) :
          WebhookPaymentLoad(p, event, o, pid, sig)
    \/ \E p \in Procs, pid \in PaymentIds :
          \E sig \in WebhookSignatures("refund.created", 0, pid) :
          WebhookRefundLoad(p, pid, sig)
    \/ \E p \in Procs : handlePaymentCaptured(p)
    \/ \E p \in Procs : handlePaymentFailed(p)
    \/ \E p \in Procs : handleRefundCreated(p)
    \/ \E p \in Procs, u \in Users, o \in OrderIds : CancelLoad(p, u, o)
    \/ \E p \in Procs : CancelSave(p)
    \/ \E p \in Procs, o \in OrderIds, st \in StatusInputs : AdminStatusLoad(p, o, st)
    \/ \E p \in Procs : AdminStatusSave(p)
    \/ \E p \in Procs, v \in Variants, operation \in {"add", "remove", "set"},
          n \in StockInputs : AdminInventoryLoad(p, v, operation, n)
    \/ \E p \in Procs : AdminInventorySave(p)

Spec == Init /\ [][Next]_vars

----------------------------------------------------------------------------
(* Specification of the confirmations of two pending orders of the same     *)
(* variant, one order of each user, checked out while the stock was whole.  *)

PendingOrder(n, u, quantity) ==
    LET items == <<[variant |-> "v1", quantity |-> quantity, price |-> PriceOf("v1")]>>
    IN NewOrder(OrderNumberOf(n), u, items,
                ComputeTotals(SumLines(items), EnvUnset, EnvUnset))

InitDebits ==
    /\ stock = [v \in Variants |-> InitStock]
    /\ carts = [u \in Users |-> [items |-> <<>>, v |-> 2]]
    /\ \E q1, q2 \in 1..MaxQty :
          orders = <<PendingOrder(1, "alice", q1), PendingOrder(2, "bob", q2)>>
    /\ emails = <<0, 0>>
    /\ debits = <<<<0>>, <<0>>>>
    /\ credits = <<<<0>>, <<0>>>>
    /\ req = [p \in Procs |-> Idle]
    /\ clock = 2
    /\ env = [FREE_SHIPPING_THRESHOLD |-> EnvUnset, TAX_RATE |-> EnvUnset]
    /\ response = [op |-> "none", status |-> 0]

NextDebits ==
    \/ \E p \in Procs, o \in OrderIds, pid \in PaymentIds :
          VerifyLoad(p, orders[o].user, o, pid, Hmac(KeySecret, <<GatewayOrderRef, pid>>))
    \/ \E p \in Procs : VerifySave(p)
    \/ \E p \in Procs, o \in OrderIds : CodLoad(p, orders[o].user, o)
    \/ \E p \in Procs : CodSave(p)
    \/ \E p \in Procs : StockFind(p)
    \/ \E p \in Procs : updateStock(p)

SpecDebits == InitDebits /\ [][NextDebits]_vars

----------------------------------------------------------------------------
(* Specification of the checkouts of one cart: the shopper's cart is filled *)
(* at the start and nothing is added to it afterwards.                      *)

\* The carts of one or two lines that POST /add builds.
FilledCarts ==
    LET one(v, q) == addItem([items |-> <<>>, v |-> 0], v, q, PriceOf(v))
    IN {one(v, q) : v \in Variants, q \in 1..MaxQty}
       \cup {addItem(one("v1", q1), "v2", q2, PriceOf("v2")) : q1, q2 \in 1..MaxQty}

InitSameCart ==
    /\ stock = [v \in Variants |-> InitStock]
    /\ \E cart \in FilledCarts :
          carts = [u \in Users |-> IF u = Shopper THEN cart ELSE NoCart]
    /\ orders = <<>>
    /\ emails = <<>>
    /\ debits = <<>>
    /\ credits = <<>>
    /\ req = [p \in Procs |-> Idle]
    /\ clock = 2
    /\ env = [FREE_SHIPPING_THRESHOLD |-> EnvUnset, TAX_RATE |-> EnvUnset]
    /\ response = [op |-> "none", status |-> 0]

NextSameCart ==
    \/ \E p \in Procs : CheckoutLoadCart(p, Shopper)
    \/ \E p \in Procs : CheckoutGenerate(p)
    \/ \E p \in Procs : CheckoutProbe(p)
    \/ \E p \in Procs : CheckoutCreate(p)
    \/ \E p \in Procs : CheckoutClearCart(p)

SpecSameCart == InitSameCart /\ [][NextSameCart]_vars

----------------------------------------------------------------------------
(* Specification of checkout, confirmation and cancel alone: the back       *)
(* office edits neither the inventory nor the status of an order.           *)

NextLifecycle ==
    \/ \E p \in Procs, v \in Variants, q \in 1..MaxQty : AddToCart(p, Shopper, v, q)
    \/ \E p \in Procs : CheckoutLoadCart(p, Shopper)
    \/ \E p \in Procs : CheckoutGenerate(p)
    \/ \E p \in Procs : CheckoutProbe(p)
    \/ \E p \in Procs : CheckoutCreate(p)
    \/ \E p \in Procs : CheckoutClearCart(p)
    \/ \E p \in Procs, o \in OrderIds, pid \in PaymentIds :
          VerifyLoad(p, Shopper, o, pid, Hmac(KeySecret, <<GatewayOrderRef, pid>>))
    \/ \E p \in Procs : VerifySave(p)
    \/ \E p \in Procs, o \in OrderIds : CodLoad(p, Shopper, o)
    \/ \E p \in Procs : CodSave(p)
    \/ \E p \in Procs : StockFind(p)
    \/ \E p \in Procs : updateStock(p)
    \/ \E p \in Procs : restoreStock(p)
    \/ \E p \in Procs, o \in OrderIds, pid \in PaymentIds :
          WebhookPaymentLoad(p, "payment.captured", o, pid,
                             Hmac(WebhookSecret, <<"payment.captured", o, pid>>))
    \/ \E p \in Procs : handlePaymentCaptured(p)
    \/ \E p \in Procs, o \in OrderIds : CancelLoad(p, Shopper, o)
    \/ \E p \in Procs : CancelSave(p)

SpecLifecycle == Init /\ [][NextLifecycle]_vars

----------------------------------------------------------------------------
(* Specification of the totals computation alone: the subtotal and the two  *)
(* settings are drawn at the start, the handler computes the totals.        *)

Subtotals == {899, 1798, 1999, 2000, 2500, 2998}
ThresholdSettings == {EnvUnset, EnvSet(0), EnvSet(1000), EnvSet(2000), EnvSet(3000)}
TaxRateSettings == {EnvUnset, EnvSet(0), EnvSet(5), EnvSet(18)}

InitTotals ==
    /\ stock = [v \in Variants |-> InitStock]
    /\ carts = [u \in Users |-> NoCart]
    /\ orders = <<>>
    /\ \E s \in Subtotals :
          req = [p \in Procs |->
                    IF p = 1 THEN [Idle EXCEPT !.pc = "totals", !.op = "checkout",
                                               !.totals.subtotal = s]
                    ELSE Idle]
    /\ clock = 1
    /\ env \in [FREE_SHIPPING_THRESHOLD : ThresholdSettings, TAX_RATE : TaxRateSettings]
    /\ emails = <<>>
    /\ debits = <<>>
    /\ credits = <<>>
    /\ response = [op |-> "none", status |-> 0]

\* The totals block applied to the subtotal the handler holds.
CheckoutTotals(p) ==
    /\ req[p].pc = "totals"
    /\ req' = [req EXCEPT ![p].totals = ComputeTotals(req[p].totals.subtotal,
                                            env.FREE_SHIPPING_THRESHOLD, env.TAX_RATE),
                          ![p].pc = "totalled"]
    /\ UNCHANGED <<stock, carts, orders, clock, env, emails, debits, credits, response>>

NextTotals == \E p \in Procs : CheckoutTotals(p)

SpecTotals == InitTotals /\ [][NextTotals]_vars

----------------------------------------------------------------------------
(* Properties *)

\* C1: no two persisted orders share an order number, in every interleaving
\* of the read-max, pre-check and insert steps of concurrent checkouts.
C1_UniqueOrderNumbers ==
    \A a, b \in 1..Len(orders) : a # b => orders[a].orderNumber # orders[b].orderNumber

\* C1 witness: two orders are persisted and the checkout that inserted the
\* second one had found its first candidate taken by a concurrent checkout.
C1_Witness ==
    /\ Len(orders) >= 2
    /\ \E p \in Procs : req[p].pc = "clear" /\ req[p].attempts > 0

\* C8 as stated: on the stored fields of every order,
\* total = subtotal + shippingCost + tax - discount, and subtotal is the sum
\* of price * quantity over the line items.
C8_TotalFromStoredTax ==
    \A o \in 1..Len(orders) :
        /\ orders[o].total = orders[o].subtotal + orders[o].shippingCost
                             + orders[o].tax - orders[o].discount
        /\ orders[o].subtotal = SumLines(orders[o].items)

\* C8 amended: the stored field tax holds the tax rate; with the stored
\* taxAmount in its place, total = subtotal + shippingCost + taxAmount -
\* discount, and subtotal is the sum of price * quantity over the line items.
C8_TotalFromStoredTaxAmount ==
    \A o \in 1..Len(orders) :
        /\ orders[o].total = orders[o].subtotal + orders[o].shippingCost
                             + orders[o].taxAmount - orders[o].discount
        /\ orders[o].subtotal = SumLines(orders[o].items)

\* C8 witness: a persisted order of two line items that pays the shipping
\* fee, and one that ships free.
C8_Witness ==
    /\ \E o \in 1..Len(orders) : Len(orders[o].items) = 2 /\ orders[o].shippingCost = 0
    /\ \E o \in 1..Len(orders) : orders[o].shippingCost = FlatShippingFee

\* C9: for every subtotal s, configured threshold t and configured integer
\* tax rate r, checkout computes shippingCost = 0 if s >= t else 100,
\* taxAmount = round(s * r / 100) and total = s + shippingCost + taxAmount.
C9_TotalsFollowSettings ==
    \A p \in Procs :
        (/\ req[p].pc = "totalled"
         /\ env.FREE_SHIPPING_THRESHOLD.set
         /\ env.TAX_RATE.set)
        => LET s == req[p].totals.subtotal
               t == env.FREE_SHIPPING_THRESHOLD.value
               r == env.TAX_RATE.value
               shipping == IF s >= t THEN 0 ELSE 100
               taxAmount == (s * r + 50) \div 100
           IN /\ req[p].totals.shippingCost = shipping
              /\ req[p].totals.taxAmount = taxAmount
              /\ req[p].totals.totalAmount = s + shipping + taxAmount

C2_CompletedIsNoOp ==
    [][\A p \in Procs :
          (/\ req[p].op \in {"verify", "payment.captured"}
           /\ req[p].doc.paymentStatus = "completed"
           /\ req'[p] # req[p])
          => (orders' = orders /\ stock' = stock)]_vars

\* C3: when the payment.captured event of a payment is delivered again for
\* an order it already completed, the order has had exactly one inventory
\* debit of each line item and exactly one confirmation email.
C3_CaptureTwiceOneDebitOneEmail ==
    [][\A p \in Procs :
          (/\ req[p].op = "payment.captured"
           /\ req[p].pc = "webhook_save"
           /\ req[p].doc.paymentStatus = "completed"
           /\ req[p].doc.payment.razorpayPaymentId = req[p].arg
           /\ req'[p] # req[p])
          => LET o == req[p].oid
             IN /\ \A i \in 1..Len(orders[o].items) : debits'[o][i] = 1
                /\ emails'[o] = 1]_vars

\* C4: verify_payment by the owner with a signature that differs from
\* HMAC(secret, gatewayOrderId|gatewayPaymentId) is rejected and leaves the
\* orders and all stock unchanged, whatever the state of the order.
C4_InvalidSignatureRejected ==
    [][\A p \in Procs, u \in Users, o \in OrderIds, pid \in PaymentIds,
          sig \in ClientSignatures :
          (/\ VerifyLoad(p, u, o, pid, sig)
           /\ orders[o].user = u
           /\ sig # Hmac(KeySecret, <<GatewayOrderRef, pid>>))
          => /\ response' = [op |-> "verify", status |-> 400]
             /\ req'[p] = Idle
             /\ orders' = orders
             /\ stock' = stock
             /\ emails' = emails]_vars

\* C4 witness: verify_payment was answered 400 (only the signature check
\* answers so) for an order that is paid and no longer pending.
C4_Witness ==
    /\ response = [op |-> "verify", status |-> 400]
    /\ \E o \in OrderIds : orders[o].paymentStatus = "completed"
                            /\ orders[o].orderStatus = "confirmed"
    /\ \A p \in Procs : req[p].pc = "idle"

\* C5: each stock write of a cancel of an order that was processing adds to
\* the variant exactly the quantity debited for that line at confirmation;
\* a cancel of an order already cancelled is rejected and changes no stock.
C5_CancelRestoresWhatWasDebited ==
    [][/\ \A p \in Procs :
            (/\ req[p].op = "cancel"
             /\ req[p].pc = "update"
             /\ req[p].doc.orderStatus = "processing"
             /\ req'[p] # req[p])
            => LET o == req[p].oid
                   item == orders[o].items[req[p].i]
               IN stock'[item.variant]
                    = stock[item.variant] + debits[o][req[p].i] * item.quantity
       /\ \A p \in Procs, u \in Users, o \in OrderIds :
            (CancelLoad(p, u, o) /\ orders[o].orderStatus = "cancelled")
            => (req'[p] = Idle /\ stock' = stock)]_vars

\* C6: a cancel by the owner of an order whose status is not pending,
\* payment_pending, confirmed or processing is rejected and leaves the order
\* status and all stock unchanged.
C6_CancelOnlyFromCancellable ==
    [][\A p \in Procs, u \in Users, o \in OrderIds :
          (/\ CancelLoad(p, u, o)
           /\ orders[o].user = u
           /\ orders[o].orderStatus \notin {"pending", "payment_pending", "confirmed", "processing"})
          => /\ req'[p] = Idle
             /\ response' = [op |-> "cancel", status |-> 400]
             /\ orders' = orders
             /\ stock' = stock]_vars

\* C7: the status of an order changes to confirmed only from pending or
\* payment_pending.
C7_ConfirmedOnlyFromPending ==
    [][\A o \in OrderIds :
          (orders'[o].orderStatus = "confirmed" /\ orders[o].orderStatus # "confirmed")
          => orders[o].orderStatus \in {"pending", "payment_pending"}]_vars

\* C11: a checkout whose cart is missing or empty, or one of whose lines asks
\* more than the live stock of its variant or names a variant with no
\* inventory record, fails, persists no order and leaves the cart and all
\* stock unchanged.
C11_CheckoutGuardsRejectUnchanged ==
    [][\A p \in Procs, u \in Users :
          (/\ CheckoutLoadCart(p, u)
           /\ \/ carts[u] = NoCart
              \/ Len(carts[u].items) = 0
              \/ \E k \in 1..Len(carts[u].items) :
                    LET line == carts[u].items[k]
                    IN IF line.variant \in DOMAIN stock
                       THEN stock[line.variant] < line.quantity
                       ELSE TRUE)
          => /\ response' = [op |-> "checkout", status |-> 400]
             /\ req'[p] = Idle
             /\ orders' = orders
             /\ carts' = carts
             /\ stock' = stock]_vars

\* C11 witness: a checkout was refused while the cart holds a line of a
\* variant whose inventory record is gone, and nothing was persisted.
C11_Witness ==
    /\ response = [op |-> "checkout", status |-> 400]
    /\ \E k \in 1..Len(carts[Shopper].items) :
          carts[Shopper].items[k].variant \notin DOMAIN stock
    /\ orders = <<>>

\* C12: every persisted order number is the bucket prefix (year, month)
\* followed by exactly 4 sequence digits, for every count of orders already
\* in the bucket, and the numbers of a bucket increase strictly in creation
\* order.
C12_FourDigitsIncreasing ==
    /\ \A k \in 1..Len(orders) :
          /\ Len(orders[k].orderNumber) = Len(BucketPrefix) + SequenceWidth
          /\ SubSeq(orders[k].orderNumber, 1, Len(BucketPrefix)) = BucketPrefix
    /\ \A a, b \in 1..Len(orders) :
          a < b => StrLess(orders[a].orderNumber, orders[b].orderNumber)

\* C20: the order number loop of checkout makes at most 5 attempts (the
\* attempt counter, which grows between two calls of the generator, stays
\* below 5); a checkout whose fifth candidate is taken, or whose loop gives
\* up on a rejected query, fails with no order persisted and the cart not
\* cleared; an order is only persisted under a number that is not empty and
\* not taken.
C20_RetryBoundedThenFails ==
    [][\A p \in Procs :
          /\ req'[p].attempts < maxAttempts
          /\ (/\ req[p].pc = "probe"
              /\ req'[p] # req[p]
              /\ OrderNumberExists(orders, req[p].num)
              /\ req[p].attempts = maxAttempts - 1)
             => req'[p] = Idle
          /\ (req[p].pc \in {"generate", "probe"} /\ req'[p] = Idle)
             => /\ response' = [op |-> "checkout", status |-> 500]
                /\ orders' = orders
                /\ carts' = carts
          /\ (req[p].pc = "create" /\ req'[p] # req[p] /\ orders' # orders)
             => /\ orders' = Append(orders, orders'[Len(orders')])
                /\ orders'[Len(orders')].orderNumber # <<>>
                /\ ~OrderNumberExists(orders, orders'[Len(orders')].orderNumber)]_vars

\* C20 witness: in a bucket whose last candidate stays taken, a checkout
\* gave up and was answered 500; its cart still holds its lines and the
\* bucket holds no order beyond those it found.
C20_Witness ==
    /\ response = [op |-> "checkout", status |-> 500]
    /\ Len(orders) = 3
    /\ orders[3].orderNumber = OrderNumberOf(LastSequence + 1)
    /\ \E u \in Users : carts[u] # NoCart /\ Len(carts[u].items) > 0
    /\ \A p \in Procs : req[p].pc = "idle"

\* C13: in every reachable state the stock of every inventory record is at
\* least 0.
C13_StockNeverNegative == \A v \in DOMAIN stock : stock[v] >= 0

\* C13 witness: a confirmation was answered 500 because the debit of a line
\* would have made the stock negative, and the line is not debited.
C13_Witness ==
    /\ response \in {[op |-> "cod", status |-> 500], [op |-> "verify", status |-> 500]}
    /\ \E o \in OrderIds :
          /\ debits[o][1] = 0
          /\ stock[orders[o].items[1].variant] < orders[o].items[1].quantity
    /\ \A p \in Procs : req[p].pc = "idle"

\* C14 (as the specification states it): create_payment_intent,
\* verify_payment (whatever its signature) and confirm_cod called by a user
\* who does not own the order are answered 403 and leave the orders and all
\* stock unchanged.
C14_NonOwnerForbidden ==
    [][\A p \in Procs, u \in Users, o \in OrderIds :
          orders[o].user # u =>
             /\ CreateIntentLoad(p, u, o)
                => /\ response' = [op |-> "create_intent", status |-> 403]
                   /\ req'[p] = Idle /\ orders' = orders /\ stock' = stock
             /\ \A pid \in PaymentIds, sig \in ClientSignatures \cup {EmptySignature} :
                   VerifyLoad(p, u, o, pid, sig)
                   => /\ response' = [op |-> "verify", status |-> 403]
                      /\ req'[p] = Idle /\ orders' = orders /\ stock' = stock
             /\ CodLoad(p, u, o)
                => /\ response' = [op |-> "cod", status |-> 403]
                   /\ req'[p] = Idle /\ orders' = orders /\ stock' = stock]_vars

\* C14 (with the parameter check): the same, for requests that carry all
\* their parameters; a verify_payment with an empty signature is answered
\* 400 before the owner is compared, and changes nothing either.
C14_NonOwnerForbiddenAfterParameters ==
    [][\A p \in Procs, u \in Users, o \in OrderIds :
          orders[o].user # u =>
             /\ CreateIntentLoad(p, u, o)
                => /\ response' = [op |-> "create_intent", status |-> 403]
                   /\ req'[p] = Idle /\ orders' = orders /\ stock' = stock
             /\ \A pid \in PaymentIds, sig \in ClientSignatures \cup {EmptySignature} :
                   VerifyLoad(p, u, o, pid, sig)
                   => /\ response' = [op |-> "verify",
                                      status |-> IF sig = EmptySignature THEN 400 ELSE 403]
                      /\ req'[p] = Idle /\ orders' = orders /\ stock' = stock
             /\ CodLoad(p, u, o)
                => /\ response' = [op |-> "cod", status |-> 403]
                   /\ req'[p] = Idle /\ orders' = orders /\ stock' = stock]_vars

\* C14 witness: confirm_cod by a user who does not own the order was
\* answered 403, and the order is still pending and undebited.
C14_Witness ==
    /\ response = [op |-> "cod", status |-> 403]
    /\ \E o \in OrderIds : /\ orders[o].orderStatus = "pending"
                           /\ debits[o][1] = 0
    /\ \A p \in Procs : req[p].pc = "idle"

\* C15: confirm_cod is applied only to an order whose status is pending, and
\* is rejected (400) with nothing changed otherwise; where it is applied, the
\* order gets payment method cod, payment status pending and order status
\* confirmed, and each of its debits lowers the stock of the line's variant
\* by the line's quantity.
C15_CodOnlyFromPending ==
    [][\A p \in Procs :
          /\ \A o \in OrderIds :
                (CodLoad(p, orders[o].user, o) /\ orders[o].orderStatus # "pending")
                => /\ response' = [op |-> "cod", status |-> 400]
                   /\ req'[p] = Idle /\ orders' = orders /\ stock' = stock
          /\ CodSave(p)
             => LET o == req[p].oid
                IN /\ orders[o].orderStatus = "pending"
                   /\ orders'[o].payment.method = "cod"
                   /\ orders'[o].payment.status = "pending"
                   /\ orders'[o].paymentStatus = "pending"
                   /\ orders'[o].orderStatus = "confirmed"
          /\ (updateStock(p) /\ req[p].op = "cod" /\ stock' # stock)
             => LET item == orders[req[p].oid].items[req[p].i]
                IN stock'[item.variant] = stock[item.variant] - item.quantity]_vars

\* C16: no cart holds two lines of the same (product, color, size): after
\* any add, update, remove or clear, the lines of a cart are of distinct
\* variants.
C16_OneLinePerVariant ==
    \A u \in Users :
       \A j, k \in 1..Len(carts[u].items) :
          carts[u].items[j].variant = carts[u].items[k].variant => j = k

\* C17: cancelled and refunded are absorbing: a save of cancel,
\* verify_payment, confirm_cod or of a webhook handler (capture, failure,
\* refund) leaves the status of an order that is cancelled or refunded as
\* it is.
C17_CancelledRefundedAbsorbing ==
    [][\A p \in Procs :
          (CancelSave(p) \/ VerifySave(p) \/ CodSave(p) \/ handlePaymentCaptured(p)
             \/ handlePaymentFailed(p) \/ handleRefundCreated(p))
          => \A o \in OrderIds :
                orders[o].orderStatus \in {"cancelled", "refunded"}
                => orders'[o].orderStatus = orders[o].orderStatus]_vars

C19_DebitOnlyWhenAvailable ==
    [][\A p \in Procs :
          (updateStock(p) /\ stock' # stock)
          => LET item == orders[req[p].oid].items[req[p].i]
             IN stock[item.variant] >= item.quantity]_vars

\* C21: create_payment_intent by the owner of an order whose paymentStatus
\* is completed is rejected (400) with nothing changed; otherwise its save
\* stores the gateway order reference in the payment sub-record and leaves
\* orderStatus, and all stock, as they are.
C21_IntentRejectedWhenPaid ==
    [][\A p \in Procs :
          /\ \A o \in OrderIds :
                (CreateIntentLoad(p, orders[o].user, o)
                   /\ orders[o].paymentStatus = "completed")
                => /\ response' = [op |-> "create_intent", status |-> 400]
                   /\ req'[p] = Idle /\ orders' = orders /\ stock' = stock
          /\ CreateIntentSave(p)
             => LET o == req[p].oid
                IN /\ orders'[o].payment.razorpayOrderId = req[p].now
                   /\ orders'[o].orderStatus = orders[o].orderStatus
                   /\ \A k \in OrderIds \ {o} : orders'[k] = orders[k]
                   /\ stock' = stock
                   /\ response' = [op |-> "create_intent", status |-> 200]]_vars

\* C21 witness: a payment intent was created for an order, whose payment
\* sub-record holds the gateway reference while the order is still pending.
C21_Witness ==
    /\ response = [op |-> "create_intent", status |-> 200]
    /\ \E o \in OrderIds : /\ orders[o].payment.razorpayOrderId # 0
                           /\ orders[o].orderStatus = "pending"

\* C22: with no inventory edit of the back office, the stock of a variant
\* never exceeds its initial value, whatever checkouts, confirmations and
\* cancels have run.
C22_StockAtMostInitial == \A v \in Variants : stock[v] <= InitStock

\* C23: of two cancel requests of one order in flight together at most one
\* gets past the status guard to its restore loop, and no line of an order
\* is credited back to the stock more than once.
C23_ConcurrentCancelsRestoreOnce ==
    /\ \A p, q \in Procs :
          (/\ p # q
           /\ req[p].op = "cancel" /\ req[q].op = "cancel"
           /\ req[p].oid = req[q].oid)
          => ~(req[p].pc = "update" /\ req[q].pc = "update")
    /\ \A o \in OrderIds : \A i \in 1..Len(credits[o]) : credits[o][i] <= 1

\* C24: across verify_payment and confirm_cod, in sequence or in flight
\* together, no line item of an order is debited from the stock more than
\* once.
C24_DebitedAtMostOnce ==
    \A o \in OrderIds : \A i \in 1..Len(debits[o]) : debits[o][i] <= 1

\* C25: confirmation is all or nothing: when a verify_payment or a
\* confirm_cod ends and leaves its order confirmed, every line item of the
\* order has been debited from the stock.
C25_ConfirmedMeansDebited ==
    [][\A p \in Procs :
          (/\ req[p].op \in {"verify", "cod"}
           /\ req[p].pc \in {"find", "update"}
           /\ req'[p] = Idle
           /\ orders'[req[p].oid].orderStatus = "confirmed")
          => \A i \in 1..Len(debits'[req[p].oid]) : debits'[req[p].oid][i] >= 1]_vars

\* C26: when two different orders of the same variant have both been
\* debited, by confirmations in flight together or not, the stock of the
\* variant is its prior stock less both quantities.
C26_BothDebitsCounted ==
    (Len(orders) = 2 /\ debits = <<<<1>>, <<1>>>>)
    => stock["v1"] = InitStock - orders[1].items[1].quantity
                               - orders[2].items[1].quantity

\* C27: in every state, the paymentStatus of every order equals the status
\* of its payment sub-record.
C27_PaymentStatusMirrored ==
    \A o \in OrderIds : orders[o].paymentStatus = orders[o].payment.status

\* C28: a payment status that is completed stays completed or becomes
\* refunded; no step of any handler or webhook event takes it back to
\* pending or to failed.
C28_CompletedOnlyToRefunded ==
    [][\A o \in OrderIds :
          orders[o].paymentStatus = "completed"
          => orders'[o].paymentStatus \in {"completed", "refunded"}]_vars

\* C29: after a successful add or update of a cart line, the quantity of
\* the line is at most 10 and at most the stock of the variant that the
\* request's stock check saw.
C29_LineWithinLimitAndStock ==
    [][\A p \in Procs :
          (/\ CartSave(p)
           /\ req[p].op \in {"cart_add", "cart_update"}
           /\ response'.status = 200)
          => LET items == carts'[req[p].user].items
                 k == IndexOf(items, req[p].arg)
             IN k # 0 => /\ items[k].quantity <= MaxCartQuantity
                         /\ items[k].quantity <= req[p].snap]_vars

\* C30: checkouts of one user over the same cart contents, in flight
\* together or not, persist at most one order: with nothing added to the
\* cart in between, the user never has two orders.
C30_OneOrderPerCart == Len(orders) <= 1

====
